---- MODULE Spec2Model ----
(***************************************************************************)
(* Model of the UsageLimiter durable object (worker/src/usage-limiter.ts)  *)
(* of the couples gallery: the quota-enforcing metadata store with its     *)
(* two-phase reserve/commit upload protocol, the photo lifecycle           *)
(* (active / soft-deleted / purged) and the auto-purge of old soft-deletes.*)
(*                                                                         *)
(* Time is counted in hours (Date.now() is in milliseconds; every          *)
(* comparison of the code is between millisecond values, and the model     *)
(* samples them on the hour, which includes each boundary exactly).        *)
(* The notes list and the next-date record of StorageData carry no quota   *)
(* or lifecycle state and are left out, as is PhotoMeta.filename.          *)
(* A reservation id (`${Date.now()}-${random}`) is modelled as a fresh     *)
(* number.                                                                 *)
(* The worker in front of the object (worker/src/index.ts) is modelled     *)
(* where it shapes the object's inputs, and for the upload PUTs and the    *)
(* deletes it makes on the R2 bucket.                                      *)
(***************************************************************************)
EXTENDS Integers, Sequences, FiniteSets, TLC

\* ---------------------------------------------------------------- bounds
MaxTotalBytes == 3
MaxUploadsPerDay == 2
MaxSteps == 6

\* ------------------------------------------------------- program constants
\* hours per calendar day (toISOString().slice(0, 10) is the UTC date)
HoursPerDay == 24
\* 3600000 ms: a reservation is pending while younger than this
LiveWindow == 1
\* 7200000 ms: reservations older than this are garbage-collected
HardExpiry == 2
\* 30 * 24 * 60 * 60 * 1000 ms: retention of soft-deleted photos
RetentionPeriod == 720
\* weekAgo.setDate(weekAgo.getDate() - 7)
CounterRetentionDays == 7
\* remaining / 1024 / 1024
BytesPerMB == 1048576

\* ------------------------------------------------------------ input sets
NoteTexts == {"hi"}
FileCounts == {1}

\* index.ts 290-296: a photo of a client's commit request (id, note, day
\* and size are the client's)
Photo(id, size, day) == [id |-> id, note |-> "", day |-> day, size |-> size]

VARIABLES
    data,       \* this.data: the in-memory StorageData, or NoData (null)
    durable,    \* the document stored under "data", or NoData (never written)
    now,        \* the wall clock, Date.now()
    nextRid,    \* number of reservation ids generated so far
    resp,       \* the response of the last request
    steps,      \* number of steps taken so far
    hist,       \* history of the run, read by the properties only
    bucket,     \* env.GALLERY_BUCKET: the size of the object under each key
    inflight    \* the reserve handlers that run concurrently, each with the
                \* await it is suspended at

vars == <<data, durable, now, nextRid, resp, steps, hist, bucket, inflight>>

\* ---------------------------------------------------------------- values
NoData == [none |-> TRUE]
Unset == <<>>
IsSet(x) == x # Unset

EmptyData ==
    [photos |-> <<>>, totalBytes |-> 0,
     reservations |-> <<>>, dailyUploads |-> <<>>]

\* new Date(ms).toISOString(): the date part and the time-of-day part
toISOString(t) == <<t \div HoursPerDay, t % HoursPerDay>>
\* new Date(iso).getTime()
getTime(iso) == iso[1] * HoursPerDay + iso[2]
\* iso.slice(0, 10): the YYYY-MM-DD key
DateKey(iso) == iso[1]
\* new Date("YYYY-MM-DD").toISOString(): midnight UTC of that day
DayToISOString(day) == <<day, 0>>
\* new Date(s) of a string that is no date is an Invalid Date, and its
\* toISOString() throws a RangeError; the negative day numbers stand for
\* such strings
InvalidDate(day) == day < 0

getTodayKey(t) == DateKey(toISOString(t))

RECURSIVE SumSizes(_)
SumSizes(ps) ==
    IF ps = <<>> THEN 0 ELSE ps[1].size + SumSizes(Tail(ps))

RECURSIVE SumTotalSize(_, _)
SumTotalSize(rs, ids) ==
    IF ids = {} THEN 0
    ELSE LET i == CHOOSE x \in ids : TRUE
         IN rs[i].totalSize + SumTotalSize(rs, ids \ {i})

\* usage-limiter.ts 65-78
loadData ==
    IF data # NoData THEN data
    ELSE IF durable # NoData THEN durable
    ELSE EmptyData

\* usage-limiter.ts 80-84: the document a successful put leaves in storage
saveData(d) == d

\* a response, with the request's arguments it answers; the fields a
\* response does not carry keep their neutral value
NoResponse ==
    [op |-> "none", ok |-> FALSE, error |-> "", rid |-> 0, photoId |-> "",
     size |-> 0, remaining |-> 0, count |-> 0, keys |-> <<>>, photos |-> <<>>,
     favoritedBy |-> <<>>, user |-> "", drafts |-> <<>>, day |-> 0]

Failure(op, error) == [NoResponse EXCEPT !.op = op, !.error = error]
Success(op) == [NoResponse EXCEPT !.op = op, !.ok = TRUE]

\* what a handler computes: the aggregate it leaves in memory, its response,
\* and whether it reaches `await this.saveData()`
Outcome(d, r, save) == [data |-> d, resp |-> r, save |-> save]

\* variant: an id that is not there selects the last record (index -1)
findIndexOrLast(ps, id) ==
    IF \E i \in 1..Len(ps) : ps[i].id = id
    THEN CHOOSE i \in 1..Len(ps) :
            ps[i].id = id /\ \A j \in 1..(i - 1) : ps[j].id # id
    ELSE Len(ps)

\* data.photos.find((p) => p.id === id) / findIndex: first index, 0 if none
findIndex(ps, id) ==
    IF \E i \in 1..Len(ps) : ps[i].id = id
    THEN CHOOSE i \in 1..Len(ps) :
            ps[i].id = id /\ \A j \in 1..(i - 1) : ps[j].id # id
    ELSE 0

\* variant: photos.splice(i), which drops the record and all after it
spliceRest(ps, i) == SubSeq(ps, 1, i - 1)

\* photos.splice(i, 1)
splice(ps, i) == [j \in 1..(Len(ps) - 1) |-> IF j < i THEN ps[j] ELSE ps[j + 1]]

\* photos.filter(keep), for a set of kept indices
RECURSIVE filter(_, _, _)
filter(ps, keep, i) ==
    IF i > Len(ps) THEN <<>>
    ELSE IF i \in keep THEN <<ps[i]>> \o filter(ps, keep, i + 1)
    ELSE filter(ps, keep, i + 1)

\* ------------------------------------------------------------ the quota
\* usage-limiter.ts 235
todayUploads(d, t) ==
    IF getTodayKey(t) \in DOMAIN d.dailyUploads
    THEN d.dailyUploads[getTodayKey(t)] ELSE 0

\* variant: a reservation still counts at the age of exactly one hour
pendingReservedInclusive(d, t) ==
    SumTotalSize(d.reservations,
        {i \in DOMAIN d.reservations :
            ~d.reservations[i].committed
            /\ t - d.reservations[i].createdAt <= LiveWindow})

\* usage-limiter.ts 244-246
pendingReserved(d, t) ==
    SumTotalSize(d.reservations,
        {i \in DOMAIN d.reservations :
            ~d.reservations[i].committed
            /\ t - d.reservations[i].createdAt < LiveWindow})

\* variant: the limit is passed before a reserve is refused
dailyLimitReachedLate(uploads, maxUploadsPerDay) == uploads > maxUploadsPerDay

\* usage-limiter.ts 236
dailyLimitReached(uploads, maxUploadsPerDay) == uploads >= maxUploadsPerDay

\* variant: the day's counter grows by the number of files
incrementDailyByFiles(uploads, body) == uploads + body.fileCount

\* usage-limiter.ts 269
incrementDaily(uploads, body) == uploads + 1

\* variant: the pending reservations are left out of the projection
projectedTotalNoPending(d, t, totalSize) == d.totalBytes + totalSize

\* usage-limiter.ts 249
projectedTotal(d, t, totalSize) ==
    d.totalBytes + pendingReserved(d, t) + totalSize

\* variant: committed reservations are never dropped
cleanReservationsKeepsCommitted(rs, t) ==
    LET cutoff == t - HardExpiry
        keep == {i \in DOMAIN rs :
                    rs[i].committed \/ ~(rs[i].createdAt < cutoff)}
    IN [i \in keep |-> rs[i]]

\* usage-limiter.ts 271-277
cleanReservations(rs, t) ==
    LET cutoff == t - HardExpiry
        keep == {i \in DOMAIN rs : ~(rs[i].createdAt < cutoff)}
    IN [i \in keep |-> rs[i]]

\* usage-limiter.ts 279-287
cleanDailyUploads(du, t) ==
    LET weekAgoKey == getTodayKey(t - CounterRetentionDays * HoursPerDay)
        keep == {k \in DOMAIN du : ~(k < weekAgoKey)}
    IN [k \in keep |-> du[k]]

\* variant: the figure is rounded up to the next megabyte
remainingMegabytesCeil(remaining) ==
    IF remaining > 0 THEN (remaining + BytesPerMB - 1) \div BytesPerMB ELSE 0

\* usage-limiter.ts 254: Math.max(0, Math.floor(remaining / 1024 / 1024))
remainingMegabytes(remaining) ==
    IF remaining \div BytesPerMB > 0 THEN remaining \div BytesPerMB ELSE 0

\* usage-limiter.ts 223-295
handleReserve(d, body, t, rid) ==
    LET today == getTodayKey(t)
        uploads == todayUploads(d, t)
        pending == pendingReserved(d, t)
        total == projectedTotal(d, t, body.totalSize)
        remaining == body.maxTotalBytes - d.totalBytes - pending
        reservation == [id |-> rid, fileCount |-> body.fileCount,
                        totalSize |-> body.totalSize, createdAt |-> t,
                        committed |-> FALSE]
        rs1 == [i \in DOMAIN d.reservations \cup {rid} |->
                   IF i = rid THEN reservation ELSE d.reservations[i]]
        du1 == [k \in DOMAIN d.dailyUploads \cup {today} |->
                   IF k = today THEN incrementDaily(uploads, body)
                   ELSE d.dailyUploads[k]]
    IN  IF dailyLimitReached(uploads, body.maxUploadsPerDay)
        THEN Outcome(d, [Failure("reserve", "daily") EXCEPT !.size = body.totalSize], FALSE)
        ELSE IF total > body.maxTotalBytes
        THEN Outcome(d, [Failure("reserve", "storage") EXCEPT
                            !.size = body.totalSize,
                            !.remaining = remainingMegabytes(remaining)],
                     FALSE)
        ELSE Outcome([d EXCEPT !.reservations = cleanReservations(rs1, t),
                               !.dailyUploads = cleanDailyUploads(du1, t)],
                     [Success("reserve") EXCEPT !.size = body.totalSize, !.rid = rid],
                     TRUE)

\* index.ts handleUploadCommit 312-321: the draft the worker sends for one
\* photo of the client's request
Draft(p, t) ==
    [id |-> p.id, note |-> p.note, uploadedAt |-> toISOString(t),
     day |-> p.day, size |-> p.size,
     key |-> <<"full", p.id>>, thumbnailKey |-> <<"thumb", p.id>>]

\* variant: the records come out in the reverse of the drafts' order
photosWithMetaReversed(body) ==
    [i \in 1..Len(body.photos) |->
        LET p == body.photos[Len(body.photos) + 1 - i] IN
        [id |-> p.id, note |-> p.note,
         noteBy |-> Unset, uploadedAt |-> p.uploadedAt,
         day |-> p.day, size |-> p.size,
         key |-> p.key, thumbnailKey |-> p.thumbnailKey,
         uploader |-> body.uploader, album |-> body.album,
         favoritedBy |-> <<>>, deletedAt |-> Unset]]

\* usage-limiter.ts 324-329
photosWithMeta(body) ==
    [i \in 1..Len(body.photos) |->
        [id |-> body.photos[i].id, note |-> body.photos[i].note,
         noteBy |-> Unset, uploadedAt |-> body.photos[i].uploadedAt,
         day |-> body.photos[i].day, size |-> body.photos[i].size,
         key |-> body.photos[i].key,
         thumbnailKey |-> body.photos[i].thumbnailKey,
         uploader |-> body.uploader, album |-> body.album,
         favoritedBy |-> <<>>, deletedAt |-> Unset]]

\* variant: the commit counts files instead of bytes
addedSizeCountsFiles(body) == Len(body.photos)

\* usage-limiter.ts 334
addedSize(body) == SumSizes(body.photos)

\* variant: the committed flag is not looked at
handleCommitUnchecked(d, body) ==
    LET rid == body.reservationId IN
    IF rid \notin DOMAIN d.reservations
    THEN Outcome(d, [Failure("commit", "invalid") EXCEPT !.rid = rid], FALSE)
    ELSE Outcome([d EXCEPT !.photos = @ \o photosWithMeta(body),
                           !.totalBytes = @ + addedSize(body),
                           !.reservations[rid].committed = TRUE],
                 [Success("commit") EXCEPT !.rid = rid, !.size = addedSize(body),
                                           !.drafts = body.photos],
                 TRUE)

\* variant: the committed flag is not set
handleCommitStaysPending(d, body) ==
    LET rid == body.reservationId IN
    IF rid \notin DOMAIN d.reservations
    THEN Outcome(d, [Failure("commit", "invalid") EXCEPT !.rid = rid], FALSE)
    ELSE IF d.reservations[rid].committed
    THEN Outcome(d, [Failure("commit", "already") EXCEPT !.rid = rid], FALSE)
    ELSE Outcome([d EXCEPT !.photos = @ \o photosWithMeta(body),
                           !.totalBytes = @ + addedSize(body)],
                 [Success("commit") EXCEPT !.rid = rid, !.size = addedSize(body),
                                           !.drafts = body.photos],
                 TRUE)

\* variant: a reservation past its live window is refused as expired
handleCommitRefusesStale(d, body) ==
    LET rid == body.reservationId IN
    IF rid \notin DOMAIN d.reservations
    THEN Outcome(d, [Failure("commit", "invalid") EXCEPT !.rid = rid], FALSE)
    ELSE IF ~(now - d.reservations[rid].createdAt < LiveWindow)
    THEN Outcome(d, [Failure("commit", "invalid") EXCEPT !.rid = rid], FALSE)
    ELSE IF d.reservations[rid].committed
    THEN Outcome(d, [Failure("commit", "already") EXCEPT !.rid = rid], FALSE)
    ELSE Outcome([d EXCEPT !.photos = @ \o photosWithMeta(body),
                           !.totalBytes = @ + addedSize(body),
                           !.reservations[rid].committed = TRUE],
                 [Success("commit") EXCEPT !.rid = rid, !.size = addedSize(body),
                                           !.drafts = body.photos],
                 TRUE)

\* usage-limiter.ts 297-343
handleCommit(d, body) ==
    LET rid == body.reservationId IN
    IF rid \notin DOMAIN d.reservations
    THEN Outcome(d, [Failure("commit", "invalid") EXCEPT !.rid = rid], FALSE)
    ELSE IF d.reservations[rid].committed
    THEN Outcome(d, [Failure("commit", "already") EXCEPT !.rid = rid], FALSE)
    ELSE Outcome([d EXCEPT !.photos = @ \o photosWithMeta(body),
                           !.totalBytes = @ + addedSize(body),
                           !.reservations[rid].committed = TRUE],
                 [Success("commit") EXCEPT !.rid = rid, !.size = addedSize(body),
                                           !.drafts = body.photos],
                 TRUE)

\* ------------------------------------------------------ the photo registry
\* variant: the user is added whether or not already a member
handleToggleFavoriteAlwaysAdds(d, body) ==
    LET i == findIndex(d.photos, body.photoId)
        fav1 == Append(d.photos[i].favoritedBy, body.user)
    IN  IF i = 0
        THEN Outcome(d, [Failure("favorite", "notfound") EXCEPT
                            !.photoId = body.photoId, !.user = body.user], FALSE)
        ELSE Outcome([d EXCEPT !.photos[i].favoritedBy = fav1],
                     [Success("favorite") EXCEPT !.photoId = body.photoId,
                                                 !.user = body.user,
                                                 !.favoritedBy = fav1], TRUE)

\* usage-limiter.ts 345-380
handleToggleFavorite(d, body) ==
    LET i == findIndex(d.photos, body.photoId)
        fav == d.photos[i].favoritedBy
        index == IF \E k \in 1..Len(fav) : fav[k] = body.user
                 THEN CHOOSE k \in 1..Len(fav) :
                        fav[k] = body.user /\ \A j \in 1..(k - 1) : fav[j] # body.user
                 ELSE 0
        fav1 == IF index >= 1 THEN splice(fav, index) ELSE Append(fav, body.user)
    IN  IF i = 0
        THEN Outcome(d, [Failure("favorite", "notfound") EXCEPT
                            !.photoId = body.photoId, !.user = body.user], FALSE)
        ELSE Outcome([d EXCEPT !.photos[i].favoritedBy = fav1],
                     [Success("favorite") EXCEPT !.photoId = body.photoId,
                                                 !.user = body.user,
                                                 !.favoritedBy = fav1], TRUE)

\* variant: the note is answered ok without the document being written
handleEditNoteUnsaved(d, body) ==
    LET i == findIndex(d.photos, body.photoId) IN
    IF i = 0
    THEN Outcome(d, [Failure("edit-note", "notfound") EXCEPT
                        !.photoId = body.photoId], FALSE)
    ELSE Outcome([d EXCEPT !.photos[i].note = body.note,
                           !.photos[i].noteBy = <<body.user>>],
                 [Success("edit-note") EXCEPT !.photoId = body.photoId], FALSE)

\* usage-limiter.ts 382-409
handleEditNote(d, body) ==
    LET i == findIndex(d.photos, body.photoId) IN
    IF i = 0
    THEN Outcome(d, [Failure("edit-note", "notfound") EXCEPT
                        !.photoId = body.photoId], FALSE)
    ELSE Outcome([d EXCEPT !.photos[i].note = body.note,
                           !.photos[i].noteBy = <<body.user>>],
                 [Success("edit-note") EXCEPT !.photoId = body.photoId], TRUE)

\* variant: every record with the id is stamped, not only the first
handleSoftDeleteEveryMatch(d, body, t) ==
    LET i == findIndex(d.photos, body.photoId) IN
    IF i = 0
    THEN Outcome(d, [Failure("delete", "notfound") EXCEPT
                        !.photoId = body.photoId], FALSE)
    ELSE Outcome([d EXCEPT !.photos =
                     [j \in 1..Len(d.photos) |->
                        IF d.photos[j].id = body.photoId
                        THEN [d.photos[j] EXCEPT !.deletedAt = toISOString(t)]
                        ELSE d.photos[j]]],
                 [Success("delete") EXCEPT !.photoId = body.photoId], TRUE)

\* variant: a photo already in the bin keeps its first deletedAt
handleSoftDeleteKeepsFirstStamp(d, body, t) ==
    LET i == findIndex(d.photos, body.photoId) IN
    IF i = 0
    THEN Outcome(d, [Failure("delete", "notfound") EXCEPT
                        !.photoId = body.photoId], FALSE)
    ELSE Outcome([d EXCEPT !.photos[i].deletedAt =
                     IF IsSet(@) THEN @ ELSE toISOString(t)],
                 [Success("delete") EXCEPT !.photoId = body.photoId], TRUE)

\* usage-limiter.ts 411-429
handleSoftDelete(d, body, t) ==
    LET i == findIndex(d.photos, body.photoId) IN
    IF i = 0
    THEN Outcome(d, [Failure("delete", "notfound") EXCEPT
                        !.photoId = body.photoId], FALSE)
    ELSE Outcome([d EXCEPT !.photos[i].deletedAt = toISOString(t)],
                 [Success("delete") EXCEPT !.photoId = body.photoId], TRUE)

\* variant: the restored record is taken out and appended again
handleRestoreReappends(d, body) ==
    LET i == findIndex(d.photos, body.photoId) IN
    IF i = 0
    THEN Outcome(d, [Failure("restore", "notfound") EXCEPT
                        !.photoId = body.photoId], FALSE)
    ELSE Outcome([d EXCEPT !.photos =
                    Append(splice(@, i), [@[i] EXCEPT !.deletedAt = Unset])],
                 [Success("restore") EXCEPT !.photoId = body.photoId], TRUE)

\* usage-limiter.ts 431-449
handleRestore(d, body) ==
    LET i == findIndex(d.photos, body.photoId) IN
    IF i = 0
    THEN Outcome(d, [Failure("restore", "notfound") EXCEPT
                        !.photoId = body.photoId], FALSE)
    ELSE Outcome([d EXCEPT !.photos[i].deletedAt = Unset],
                 [Success("restore") EXCEPT !.photoId = body.photoId], TRUE)

\* usage-limiter.ts 451-475
handlePermanentDelete(d, body) ==
    LET photoIndex == findIndex(d.photos, body.photoId)
        photo == d.photos[photoIndex]
    IN  IF photoIndex = 0
        THEN Outcome(d, [Failure("purge", "notfound") EXCEPT
                            !.photoId = body.photoId], FALSE)
        ELSE Outcome([d EXCEPT !.photos = splice(@, photoIndex),
                               !.totalBytes = @ - photo.size],
                     [Success("purge") EXCEPT !.photoId = body.photoId,
                          !.size = photo.size,
                          !.keys = <<photo.key, photo.thumbnailKey>>], TRUE)

\* usage-limiter.ts 490-516
handleEditDate(d, body) ==
    LET i == findIndex(d.photos, body.photoId) IN
    IF i = 0
    THEN Outcome(d, [Failure("edit-date", "notfound") EXCEPT
                        !.photoId = body.photoId], FALSE)
    ELSE IF InvalidDate(body.day)
    \* line 506 has assigned photo.day when line 508 throws; nothing is
    \* saved and the caller gets a server error
    THEN Outcome([d EXCEPT !.photos[i].day = body.day],
                 [Failure("edit-date", "internal") EXCEPT
                        !.photoId = body.photoId], FALSE)
    ELSE Outcome([d EXCEPT !.photos[i].day = body.day,
                           !.photos[i].uploadedAt = DayToISOString(body.day)],
                 [Success("edit-date") EXCEPT !.photoId = body.photoId,
                                              !.day = body.day], TRUE)

\* ------------------------------------------------------ the recycle janitor
\* variant: a photo deleted exactly thirty days ago is dropped too
ExpiredInclusive(ps, t) ==
    LET thirtyDaysAgo == t - RetentionPeriod IN
    {i \in 1..Len(ps) :
        IsSet(ps[i].deletedAt) /\ getTime(ps[i].deletedAt) <= thirtyDaysAgo}

\* usage-limiter.ts 194-197: the photos the filter drops
Expired(ps, t) ==
    LET thirtyDaysAgo == t - RetentionPeriod IN
    {i \in 1..Len(ps) :
        IsSet(ps[i].deletedAt) /\ getTime(ps[i].deletedAt) < thirtyDaysAgo}

\* variant: the document is written whether or not a photo was dropped
autoPurgeOldDeletedAlwaysSaves(d, t) ==
    LET gone == Expired(d.photos, t)
        kept == filter(d.photos, (1..Len(d.photos)) \ gone, 1)
        purged == filter(d.photos, gone, 1)
    IN  [data |-> [d EXCEPT !.photos = kept,
                            !.totalBytes = @ - SumSizes(purged)],
         changed |-> TRUE]

\* usage-limiter.ts 189-210: the aggregate it leaves, and `changed`
autoPurgeOldDeleted(d, t) ==
    LET gone == Expired(d.photos, t)
        kept == filter(d.photos, (1..Len(d.photos)) \ gone, 1)
        purged == filter(d.photos, gone, 1)
    IN  [data |-> [d EXCEPT !.photos = kept,
                            !.totalBytes = @ - SumSizes(purged)],
         changed |-> gone # {}]

\* Array.prototype.sort((a, b) => time(b[field]) - time(a[field])): by the
\* time in `field`, descending; the sort is stable
RECURSIVE InsertDesc(_, _, _)
InsertDesc(sorted, p, field) ==
    IF sorted = <<>> THEN <<p>>
    ELSE IF getTime(Head(sorted)[field]) >= getTime(p[field])
         THEN <<Head(sorted)>> \o InsertDesc(Tail(sorted), p, field)
         ELSE <<p>> \o sorted

RECURSIVE SortDesc(_, _)
SortDesc(ps, field) ==
    IF ps = <<>> THEN <<>>
    ELSE InsertDesc(SortDesc(SubSeq(ps, 1, Len(ps) - 1), field), ps[Len(ps)], field)

\* variant: the active photos in stored order, without the sort
ActiveInStoredOrder(ps) ==
    filter(ps, {i \in 1..Len(ps) : ~IsSet(ps[i].deletedAt)}, 1)

\* usage-limiter.ts 178-180
ActiveSorted(ps) ==
    SortDesc(filter(ps, {i \in 1..Len(ps) : ~IsSet(ps[i].deletedAt)}, 1),
             "uploadedAt")

\* variant: the bin is sorted by the upload time
DeletedSortedByUpload(ps) ==
    SortDesc(filter(ps, {i \in 1..Len(ps) : IsSet(ps[i].deletedAt)}, 1),
             "uploadedAt")

\* usage-limiter.ts 481-483
DeletedSorted(ps) ==
    SortDesc(filter(ps, {i \in 1..Len(ps) : IsSet(ps[i].deletedAt)}, 1),
             "deletedAt")

\* usage-limiter.ts 171-187
handleGetGallery(d, t) ==
    LET swept == autoPurgeOldDeleted(d, t) IN
    Outcome(swept.data,
            [Success("gallery") EXCEPT
                !.photos = ActiveSorted(swept.data.photos),
                !.size = swept.data.totalBytes,
                !.count = Len(ActiveSorted(swept.data.photos))],
            swept.changed)

\* variant: the bin read runs the sweep before it lists
handleGetRecycleBinSweeps(d) ==
    LET swept == autoPurgeOldDeleted(d, now) IN
    Outcome(swept.data,
            [Success("recycle") EXCEPT !.photos = DeletedSorted(swept.data.photos)],
            swept.changed)

\* usage-limiter.ts 477-488
handleGetRecycleBin(d) ==
    Outcome(d, [Success("recycle") EXCEPT !.photos = DeletedSorted(d.photos)],
            FALSE)

\* usage-limiter.ts 212-221
handleGetUsage(d, t) ==
    Outcome(d, [Success("usage") EXCEPT !.size = d.totalBytes,
                                        !.count = todayUploads(d, t)],
            FALSE)

\* ---------------------------------------------------------- the blob store
\* GALLERY_BUCKET.delete(key) for each of the keys
deleteKeys(bk, keys) ==
    [k \in DOMAIN bk \ {keys[i] : i \in 1..Len(keys)} |-> bk[k]]

\* GALLERY_BUCKET.put(key, body)
putObject(bk, key, size) ==
    [k \in DOMAIN bk \cup {key} |-> IF k = key THEN size ELSE bk[k]]

\* index.ts handleR2Upload 694-719: PUT /r2/upload/{key}?rid=..&exp=.. with a
\* body of `size` bytes; the bucket it leaves and the response
handleR2Upload(bk, key, rid, exp, size, t) ==
    IF t > exp
    THEN [bucket |-> bk, resp |-> Failure("upload", "expired")]
    ELSE IF rid = ""
    THEN [bucket |-> bk, resp |-> Failure("upload", "invalid")]
    ELSE [bucket |-> putObject(bk, key, size),
          resp |-> [Success("upload") EXCEPT !.size = size]]

\* ------------------------------------------------- concurrent handlers
\* The fetch events of one object run on one thread and interleave at
\* their awaits.  A reserve handler is suspended at `await request.json()`
\* (pc "json"), at the `await this.state.storage.get()` of loadData (pc
\* "get", only when this.data is still null), and, after the block of
\* usage-limiter.ts 232-287 that has no await in it, at
\* `await this.saveData()` (pc "save").
Handlers == {1, 2, 3}

Idle ==
    [pc |-> "idle", size |-> 0, seen |-> NoData,
     out |-> Outcome(NoData, NoResponse, FALSE)]

\* The object's input gate: while a storage read of the object is in
\* flight the runtime delivers no other event to it.
InputGateClosed == \E h \in Handlers : inflight[h].pc = "get"

\* variant: the handler works on the aggregate as it was when its request
\* arrived
reserveAggregateAtArrival(h, d) == inflight[h].seen

\* usage-limiter.ts 231: `const data = await this.loadData()` is this.data
\* itself, as it is when the handler resumes
reserveAggregate(h, d) == d

\* usage-limiter.ts 232-289: the block without await, run on the loaded
\* aggregate `d`, up to the call of storage.put, which takes the document
\* as it is at the call
reserveBlock(h, d) ==
    LET body == [fileCount |-> 1, totalSize |-> inflight[h].size,
                 maxTotalBytes |-> MaxTotalBytes,
                 maxUploadsPerDay |-> MaxUploadsPerDay]
        out == handleReserve(reserveAggregate(h, d), body, now, nextRid + 1)
    IN  /\ data' = out.data
        /\ durable' = IF out.save THEN saveData(out.data) ELSE durable
        /\ nextRid' = IF out.resp.ok THEN nextRid + 1 ELSE nextRid
        /\ inflight' = [inflight EXCEPT ![h].pc = "save", ![h].out = out]

\* ------------------------------------------------------------- the steps
\* Every step takes the run `b` it belongs to: the number of steps of the
\* run, the outcomes a put can have in it, and the inputs its clients draw.
\*
\* One request served to completion.  The handler's mutations are made on
\* the in-memory aggregate before `await this.saveData()`; when the put
\* rejects, the handler throws, the request fails with a generic server
\* error (index.ts 73-166; the router returns the handlers' promises without
\* awaiting them) and the stored document is left as it was.
\* The history kept for the properties:
\*   commits[rid]  how many commits of reservation rid were answered ok
\*   removed       the records the last request removed from photos
\*   undo          after a softDelete answered ok: the photo id and the
\*                 aggregate as it was before that request; none otherwise
\*   undone        the last request was a restore, answered ok, of the photo
\*                 the request before it soft-deleted
\*   admitted[day] how many reserves were answered ok on that calendar day
\*   created[rid]  the time at which reservation rid was created
\*   restored[id]  for a photo taken out of the bin by a restore and not
\*                 soft-deleted or purged since: the deletedAt it had
NoUndo == [photoId |-> "", data |-> NoData]

NoHistory ==
    [commits |-> <<>>, removed |-> <<>>, undo |-> NoUndo, undone |-> FALSE,
     admitted |-> <<>>, created |-> <<>>, restored |-> <<>>]

\* the records of `before` missing from its subsequence `after`
RECURSIVE Dropped(_, _)
Dropped(before, after) ==
    IF before = <<>> THEN <<>>
    ELSE IF after # <<>> /\ Head(before) = Head(after)
         THEN Dropped(Tail(before), Tail(after))
         ELSE <<Head(before)>> \o Dropped(Tail(before), after)

Record(h, d, out, putOk) ==
    LET ok == out.resp.ok /\ (out.save => putOk)
        rid == out.resp.rid
        today == getTodayKey(now)
    IN  [commits |->
            IF out.resp.op = "commit" /\ ok
            THEN [r \in DOMAIN h.commits \cup {rid} |->
                    IF r = rid
                    THEN (IF r \in DOMAIN h.commits THEN h.commits[r] ELSE 0) + 1
                    ELSE h.commits[r]]
            ELSE h.commits,
         removed |->
            IF Len(out.data.photos) < Len(d.photos)
            THEN Dropped(d.photos, out.data.photos)
            ELSE <<>>,
         undo |->
            IF out.resp.op = "delete" /\ ok
            THEN [photoId |-> out.resp.photoId, data |-> d]
            ELSE NoUndo,
         undone |->
            /\ out.resp.op = "restore" /\ ok
            /\ h.undo # NoUndo
            /\ h.undo.photoId = out.resp.photoId,
         admitted |->
            IF out.resp.op = "reserve" /\ ok
            THEN [k \in DOMAIN h.admitted \cup {today} |->
                    IF k = today
                    THEN (IF k \in DOMAIN h.admitted THEN h.admitted[k] ELSE 0) + 1
                    ELSE h.admitted[k]]
            ELSE h.admitted,
         created |->
            IF out.resp.op = "reserve" /\ out.resp.ok
            THEN [r \in DOMAIN h.created \cup {rid} |->
                    IF r = rid THEN now ELSE h.created[r]]
            ELSE h.created,
         restored |->
            LET id == out.resp.photoId
                i == findIndex(d.photos, id)
            IN  IF out.resp.op = "restore" /\ ok /\ i # 0
                    /\ IsSet(d.photos[i].deletedAt)
                THEN [k \in DOMAIN h.restored \cup {id} |->
                        IF k = id THEN getTime(d.photos[i].deletedAt)
                        ELSE h.restored[k]]
                ELSE IF out.resp.op \in {"delete", "purge"} /\ ok
                THEN [k \in DOMAIN h.restored \ {id} |-> h.restored[k]]
                ELSE h.restored]

Serve(b, out, putOk) ==
    /\ steps < b.maxSteps
    /\ steps' = steps + 1
    /\ data' = out.data
    /\ durable' = IF out.save /\ putOk THEN saveData(out.data) ELSE durable
    /\ resp' = IF out.save /\ ~putOk
               THEN [out.resp EXCEPT !.ok = FALSE, !.error = "internal"]
               ELSE out.resp
    /\ hist' = Record(hist, loadData, out, putOk)
    /\ now' = now
    \* index.ts handlePermanentDelete 492-502: the keys of an ok answer
    /\ bucket' = IF out.save => putOk
                 THEN deleteKeys(bucket, out.resp.keys) ELSE bucket
    /\ UNCHANGED inflight

\* index.ts handleUploadPrepare 231-248 -> usage-limiter.ts handleReserve;
\* the sizes are totals the worker's own validation lets through
Reserve(b) ==
    \E size \in b.sizes, fileCount \in b.fileCounts, putOk \in b.putOutcomes :
        LET body == [fileCount |-> fileCount, totalSize |-> size,
                     maxTotalBytes |-> b.maxTotalBytes,
                     maxUploadsPerDay |-> MaxUploadsPerDay]
            out == handleReserve(loadData, body, now, nextRid + 1)
        IN  /\ Serve(b, out, putOk)
            /\ nextRid' = IF out.resp.ok THEN nextRid + 1 ELSE nextRid

\* index.ts handleUploadCommit 303-324 -> usage-limiter.ts handleCommit
Commit(b) ==
    \E rid \in 1..(nextRid + 1), ps \in b.uploads, putOk \in b.putOutcomes :
        LET body == [reservationId |-> rid, uploader |-> b.uploader,
                     album |-> b.album,
                     photos |-> [i \in 1..Len(ps) |-> Draft(ps[i], now)]]
        IN  /\ Serve(b, handleCommit(loadData, body), putOk)
            /\ UNCHANGED nextRid

ToggleFavorite(b) ==
    \E id \in b.photoIds, user \in b.users, putOk \in b.putOutcomes :
        /\ Serve(b, handleToggleFavorite(loadData,
                        [photoId |-> id, user |-> user]), putOk)
        /\ UNCHANGED nextRid

EditNote(b) ==
    \E id \in b.photoIds, note \in NoteTexts, user \in b.users, putOk \in b.putOutcomes :
        /\ Serve(b, handleEditNote(loadData,
                        [photoId |-> id, note |-> note, user |-> user]), putOk)
        /\ UNCHANGED nextRid

SoftDelete(b) ==
    \E id \in b.photoIds, putOk \in b.putOutcomes :
        /\ Serve(b, handleSoftDelete(loadData, [photoId |-> id], now), putOk)
        /\ UNCHANGED nextRid

Restore(b) ==
    \E id \in b.photoIds, putOk \in b.putOutcomes :
        /\ Serve(b, handleRestore(loadData, [photoId |-> id]), putOk)
        /\ UNCHANGED nextRid

PermanentDelete(b) ==
    \E id \in b.photoIds, putOk \in b.putOutcomes :
        /\ Serve(b, handlePermanentDelete(loadData, [photoId |-> id]), putOk)
        /\ UNCHANGED nextRid

EditDate(b) ==
    \E id \in b.photoIds, day \in b.editDays, putOk \in b.putOutcomes :
        /\ Serve(b, handleEditDate(loadData, [photoId |-> id, day |-> day]),
                 putOk)
        /\ UNCHANGED nextRid

GetGallery(b) ==
    \E putOk \in b.putOutcomes :
        /\ Serve(b, handleGetGallery(loadData, now), putOk)
        /\ UNCHANGED nextRid

GetRecycleBin(b) ==
    /\ Serve(b, handleGetRecycleBin(loadData), TRUE)
    /\ UNCHANGED nextRid

GetUsage(b) ==
    /\ Serve(b, handleGetUsage(loadData, now), TRUE)
    /\ UNCHANGED nextRid

\* index.ts 158-160 -> handleR2Upload: an upload PUT; the key, the rid and
\* exp parameters and the body are the client's
R2Upload(b) ==
    \E key \in b.blobKeys, size \in b.blobSizes, rid \in b.rids,
       life \in b.lifetimes :
        LET out == handleR2Upload(bucket, key, rid, now + life, size, now) IN
        /\ steps < b.maxSteps
        /\ steps' = steps + 1
        /\ bucket' = out.bucket
        /\ resp' = out.resp
        /\ hist' = Record(hist, loadData, Outcome(loadData, out.resp, FALSE), TRUE)
        /\ UNCHANGED <<data, durable, now, nextRid, inflight>>

\* usage-limiter.ts 90, 224: a reserve request reaches the object and its
\* handler runs up to `await request.json()`
Arrive(b) ==
    \E h \in Handlers, size \in b.sizes :
        /\ inflight[h].pc = "idle"
        /\ ~InputGateClosed
        /\ inflight' = [inflight EXCEPT ![h] =
                [Idle EXCEPT !.pc = "json", !.size = size, !.seen = loadData]]
        /\ UNCHANGED <<data, durable, now, nextRid, resp, steps, hist, bucket>>

\* usage-limiter.ts 224-231, 65-68: the body is parsed and loadData is
\* called; with this.data set the handler goes on into its block, else
\* it issues the storage read
Parsed(b) ==
    \E h \in Handlers :
        /\ inflight[h].pc = "json"
        /\ ~InputGateClosed
        /\ IF data # NoData
           THEN reserveBlock(h, data)
           ELSE /\ inflight' = [inflight EXCEPT ![h].pc = "get"]
                /\ UNCHANGED <<data, durable, nextRid>>
        /\ UNCHANGED <<now, resp, steps, hist, bucket>>

\* usage-limiter.ts 68-77: the storage read completes, this.data is
\* assigned and the handler goes on into its block
GetDone(b) ==
    \E h \in Handlers :
        /\ inflight[h].pc = "get"
        /\ reserveBlock(h, IF durable # NoData THEN durable ELSE EmptyData)
        /\ UNCHANGED <<now, resp, steps, hist, bucket>>

\* usage-limiter.ts 65-68 read without the input gate, as plain promise
\* scheduling runs it: a handler that finds this.data null issues its own
\* storage read although another handler's read is in flight; `seen` is
\* the document as stored when the read was issued
ParsedUngated(b) ==
    \E h \in Handlers :
        /\ inflight[h].pc = "json"
        /\ IF data # NoData
           THEN reserveBlock(h, data)
           ELSE /\ inflight' = [inflight EXCEPT ![h].pc = "get",
                                                ![h].seen = durable]
                /\ UNCHANGED <<data, durable, nextRid>>
        /\ UNCHANGED <<now, resp, steps, hist, bucket>>

\* usage-limiter.ts 68-77: each read that completes assigns a document of
\* its own to this.data (the one stored when the read was issued, or the
\* one stored by now), and the handler goes on into its block with it
GetDoneUngated(b) ==
    \E h \in Handlers :
        /\ inflight[h].pc = "get"
        /\ \E read \in {inflight[h].seen, durable} :
              reserveBlock(h, IF read # NoData THEN read ELSE EmptyData)
        /\ UNCHANGED <<now, resp, steps, hist, bucket>>

\* usage-limiter.ts 289-294 (and 237-240, 251-255): the handler answers
Respond(b) ==
    \E h \in Handlers :
        /\ inflight[h].pc = "save"
        /\ inflight' = [inflight EXCEPT ![h].pc = "done"]
        /\ resp' = inflight[h].out.resp
        /\ hist' = Record(hist, loadData, inflight[h].out, TRUE)
        /\ UNCHANGED <<data, durable, now, nextRid, steps, bucket>>

\* the wall clock advances between requests
Tick(b) ==
    \E delta \in b.deltas :
        /\ steps < b.maxSteps
        /\ steps' = steps + 1
        /\ now' = now + delta
        /\ UNCHANGED <<data, durable, nextRid, resp, hist, bucket, inflight>>

\* the object is evicted or restarted: this.data is null again and the next
\* request reloads the stored document (usage-limiter.ts 59, 66-68)
Restart(b) ==
    /\ steps < b.maxSteps
    /\ steps' = steps + 1
    /\ data # NoData
    /\ data' = NoData
    /\ UNCHANGED <<durable, now, nextRid, resp, hist, bucket, inflight>>

\* usage-limiter.ts 59-63: the state of a freshly constructed object over
\* an empty storage
Init ==
    /\ data = NoData
    /\ durable = NoData
    /\ now = 0
    /\ nextRid = 0
    /\ resp = NoResponse
    /\ steps = 0
    /\ hist = NoHistory
    /\ bucket = <<>>
    /\ inflight = [h \in Handlers |-> Idle]

\* the aggregate the next request operates on
Aggregate == loadData

\* ------------------------------------------------------------- the runs
\* Quota: the two-phase upload protocol against the caps, with storage
\* that does not fail.
QuotaRun ==
    [maxSteps |-> MaxSteps, putOutcomes |-> {TRUE}, deltas |-> {LiveWindow},
     sizes |-> {1, 2}, fileCounts |-> FileCounts, maxTotalBytes |-> MaxTotalBytes,
     uploads |-> {<<Photo("p1", 1, 0)>>, <<Photo("p1", 2, 0)>>,
                  <<Photo("p1", 2, 0), Photo("p2", 2, 0)>>},
     uploader |-> "arda", album |-> "us", photoIds |-> {"p1"},
     users |-> {}, editDays |-> {}]

NextQuota ==
    \/ Reserve(QuotaRun)
    \/ Commit(QuotaRun)
    \/ SoftDelete(QuotaRun)
    \/ PermanentDelete(QuotaRun)
    \/ GetUsage(QuotaRun)
    \/ Tick(QuotaRun)

SpecQuota == Init /\ [][NextQuota]_vars

\* Lifecycle: the photos' life in and out of the recycle bin across the
\* retention period, with storage that does not fail.
LifecycleRun ==
    [maxSteps |-> MaxSteps, putOutcomes |-> {TRUE},
     deltas |-> {RetentionPeriod, RetentionPeriod + 1},
     sizes |-> {1}, fileCounts |-> FileCounts, maxTotalBytes |-> MaxTotalBytes,
     uploads |-> {<<Photo("p1", 1, 0), Photo("p2", 2, 0)>>,
                  <<Photo("p1", 2, 0), Photo("p1", 1, 0)>>},
     uploader |-> "askim", album |-> "askim", photoIds |-> {"p1", "p2"},
     users |-> {}, editDays |-> {}]

NextLifecycle ==
    \/ Reserve(LifecycleRun)
    \/ Commit(LifecycleRun)
    \/ SoftDelete(LifecycleRun)
    \/ Restore(LifecycleRun)
    \/ PermanentDelete(LifecycleRun)
    \/ GetGallery(LifecycleRun)
    \/ GetRecycleBin(LifecycleRun)
    \/ Tick(LifecycleRun)

SpecLifecycle == Init /\ [][NextLifecycle]_vars

\* Crash: storage whose put can fail, and an object that can be restarted.
CrashRun ==
    [maxSteps |-> MaxSteps, putOutcomes |-> BOOLEAN, deltas |-> {},
     sizes |-> {1}, fileCounts |-> FileCounts, maxTotalBytes |-> MaxTotalBytes,
     uploads |-> {<<Photo("p1", 1, 0)>>, <<Photo("p1", 1, 0), Photo("p2", 2, 0)>>},
     uploader |-> "arda", album |-> "arda", photoIds |-> {"p1"},
     users |-> {}, editDays |-> {}]

NextCrash ==
    \/ Reserve(CrashRun)
    \/ Commit(CrashRun)
    \/ PermanentDelete(CrashRun)
    \/ Restart(CrashRun)

SpecCrash == Init /\ [][NextCrash]_vars

\* Every operation of the object.
FullRun ==
    [maxSteps |-> MaxSteps, putOutcomes |-> {TRUE},
     deltas |-> {RetentionPeriod + 1},
     sizes |-> {1}, fileCounts |-> FileCounts, maxTotalBytes |-> MaxTotalBytes,
     uploads |-> {<<Photo("p1", 2, 0)>>, <<Photo("p1", 1, 0), Photo("p2", 2, 0)>>},
     uploader |-> "arda", album |-> "us", photoIds |-> {"p1"},
     users |-> {"arda"}, editDays |-> {31}]

Next ==
    \/ Reserve(FullRun)
    \/ Commit(FullRun)
    \/ ToggleFavorite(FullRun)
    \/ EditNote(FullRun)
    \/ SoftDelete(FullRun)
    \/ Restore(FullRun)
    \/ PermanentDelete(FullRun)
    \/ EditDate(FullRun)
    \/ GetGallery(FullRun)
    \/ GetRecycleBin(FullRun)
    \/ GetUsage(FullRun)
    \/ Tick(FullRun)

Spec == Init /\ [][Next]_vars

\* Registry: favourites, notes and album days of the photos, addressed by
\* ids that are in the gallery and by one that never is, with storage that
\* does not fail.
RegistryRun ==
    [maxSteps |-> MaxSteps, putOutcomes |-> {TRUE}, deltas |-> {},
     sizes |-> {1}, fileCounts |-> FileCounts, maxTotalBytes |-> MaxTotalBytes,
     uploads |-> {<<Photo("p1", 1, 0), Photo("p2", 2, 0)>>},
     uploader |-> "askim", album |-> "us", photoIds |-> {"p1", "p9"},
     users |-> {"arda", "askim"}, editDays |-> {31}]

NextRegistry ==
    \/ Reserve(RegistryRun)
    \/ Commit(RegistryRun)
    \/ ToggleFavorite(RegistryRun)
    \/ EditNote(RegistryRun)
    \/ EditDate(RegistryRun)
    \/ SoftDelete(RegistryRun)
    \/ Restore(RegistryRun)
    \/ PermanentDelete(RegistryRun)

SpecRegistry == Init /\ [][NextRegistry]_vars

\* Daily: reserves over several calendar days, with storage whose put can
\* fail and an object that can be restarted.
DailyRun ==
    [maxSteps |-> MaxSteps, putOutcomes |-> BOOLEAN,
     deltas |-> {HoursPerDay, CounterRetentionDays * HoursPerDay},
     sizes |-> {1}, fileCounts |-> FileCounts, maxTotalBytes |-> MaxTotalBytes, uploads |-> {},
     uploader |-> "arda", album |-> "us", photoIds |-> {},
     users |-> {}, editDays |-> {}]

NextDaily ==
    \/ Reserve(DailyRun)
    \/ GetUsage(DailyRun)
    \/ Tick(DailyRun)
    \/ Restart(DailyRun)

SpecDaily == Init /\ [][NextDaily]_vars

\* Malformed: clients that also send negative sizes (the worker's checks,
\* index.ts 225-235, bound the file count and the total size from above
\* only), with storage that does not fail.
MalformedRun ==
    [maxSteps |-> MaxSteps, putOutcomes |-> {TRUE}, deltas |-> {},
     sizes |-> {-1, 1}, fileCounts |-> FileCounts, maxTotalBytes |-> MaxTotalBytes,
     uploads |-> {<<Photo("p1", 1, 0)>>, <<Photo("p2", -1, 0)>>},
     uploader |-> "arda", album |-> "us", photoIds |-> {"p1"},
     users |-> {}, editDays |-> {}]

NextMalformed ==
    \/ Reserve(MalformedRun)
    \/ Commit(MalformedRun)
    \/ PermanentDelete(MalformedRun)
    \/ GetUsage(MalformedRun)

SpecMalformed == Init /\ [][NextMalformed]_vars

\* Blob: the upload protocol together with the upload PUTs to the bucket,
\* with storage that does not fail.
BlobRun ==
    [maxSteps |-> MaxSteps, putOutcomes |-> {TRUE}, deltas |-> {LiveWindow},
     sizes |-> {1}, fileCounts |-> FileCounts, maxTotalBytes |-> MaxTotalBytes,
     uploads |-> {<<Photo("p1", 1, 0)>>},
     uploader |-> "arda", album |-> "us", photoIds |-> {"p1"},
     users |-> {}, editDays |-> {},
     blobKeys |-> {<<"full", "p1">>, <<"thumb", "p1">>},
     blobSizes |-> {1, 2}, rids |-> {"", "r"}, lifetimes |-> {-1, 1}]

NextBlob ==
    \/ Reserve(BlobRun)
    \/ R2Upload(BlobRun)
    \/ Commit(BlobRun)
    \/ PermanentDelete(BlobRun)
    \/ Tick(BlobRun)

SpecBlob == Init /\ [][NextBlob]_vars

\* Concurrent: reserve requests whose handlers interleave at their awaits,
\* at one moment of the clock, with storage that does not fail.
ConcurrentRun ==
    [maxSteps |-> MaxSteps, putOutcomes |-> {TRUE}, deltas |-> {},
     sizes |-> {1, 2}, fileCounts |-> FileCounts, maxTotalBytes |-> MaxTotalBytes, uploads |-> {},
     uploader |-> "arda", album |-> "us", photoIds |-> {},
     users |-> {}, editDays |-> {}]

NextConcurrent ==
    \/ Arrive(ConcurrentRun)
    \/ Parsed(ConcurrentRun)
    \/ GetDone(ConcurrentRun)
    \/ Respond(ConcurrentRun)

SpecConcurrent == Init /\ [][NextConcurrent]_vars

\* Overlap: the same reserve handlers when two of them may both be inside
\* the first loadData of the object
NextOverlap ==
    \/ Arrive(ConcurrentRun)
    \/ ParsedUngated(ConcurrentRun)
    \/ GetDoneUngated(ConcurrentRun)
    \/ Respond(ConcurrentRun)

SpecOverlap == Init /\ [][NextOverlap]_vars

\* Reserving: reserves of one or several files over the hours and days at
\* which reservations and daily counters age out, with storage that does
\* not fail.
ReservingRun ==
    [maxSteps |-> MaxSteps, putOutcomes |-> {TRUE},
     deltas |-> {LiveWindow, HardExpiry, HoursPerDay,
                 CounterRetentionDays * HoursPerDay},
     sizes |-> {1}, fileCounts |-> {1, 3}, maxTotalBytes |-> MaxTotalBytes,
     uploads |-> {<<Photo("p1", 1, 0)>>},
     uploader |-> "arda", album |-> "us", photoIds |-> {},
     users |-> {}, editDays |-> {}]

NextReserving ==
    \/ Reserve(ReservingRun)
    \/ Commit(ReservingRun)
    \/ Tick(ReservingRun)

SpecReserving == Init /\ [][NextReserving]_vars

\* date edits with days the client made up, some of them no dates at all
EditingRun ==
    [maxSteps |-> MaxSteps, putOutcomes |-> {TRUE},
     deltas |-> {HoursPerDay},
     sizes |-> {1}, fileCounts |-> FileCounts, maxTotalBytes |-> MaxTotalBytes,
     uploads |-> {<<Photo("p1", 1, 0), Photo("p2", 2, 0)>>},
     uploader |-> "arda", album |-> "us", photoIds |-> {"p1", "p2"},
     users |-> {"arda"}, editDays |-> {-1, 0, 31}]

NextEditing ==
    \/ Reserve(EditingRun)
    \/ Commit(EditingRun)
    \/ EditDate(EditingRun)
    \/ SoftDelete(EditingRun)
    \/ GetGallery(EditingRun)
    \/ Tick(EditingRun)

SpecEditing == Init /\ [][NextEditing]_vars

\* Headroom: a cap of a few megabytes and sizes around the megabyte, for
\* the figure a refused reserve reports
HeadroomRun ==
    [maxSteps |-> MaxSteps, putOutcomes |-> {TRUE},
     deltas |-> {LiveWindow},
     sizes |-> {1, BytesPerMB, 2 * BytesPerMB + 1},
     fileCounts |-> FileCounts, maxTotalBytes |-> MaxTotalBytes * BytesPerMB,
     uploads |-> {<<Photo("p1", BytesPerMB + 1, 0)>>,
                  <<Photo("p1", 2 * BytesPerMB, 0), Photo("p2", 2 * BytesPerMB, 0)>>},
     uploader |-> "arda", album |-> "us", photoIds |-> {"p1"},
     users |-> {"arda"}, editDays |-> {31}]

NextHeadroom ==
    \/ Reserve(HeadroomRun)
    \/ Commit(HeadroomRun)
    \/ Tick(HeadroomRun)

SpecHeadroom == Init /\ [][NextHeadroom]_vars

\* ---------------------------------------------------------- properties
\* the step is the serving of a request `op` (resp keeps the last response
\* while the clock advances or the object restarts)
IsRequest(op) == resp'.op = op /\ now' = now /\ data' # NoData

RECURSIVE SetSum(_, _)
SetSum(f, S) ==
    IF S = {} THEN 0
    ELSE LET x == CHOOSE y \in S : TRUE IN f[x] + SetSum(f, S \ {x})

\* sum of size over the records at the indices I of ps
SizeOf(ps, I) == SetSum([i \in 1..Len(ps) |-> ps[i].size], I)

\* section 4.1 of the specification: the bytes of the live, uncommitted
\* reservations other than those in `except`
PendingBytes(d, t, except) ==
    SetSum([r \in DOMAIN d.reservations |-> d.reservations[r].totalSize],
           {r \in DOMAIN d.reservations \ except :
                ~d.reservations[r].committed
                /\ t - d.reservations[r].createdAt < LiveWindow})

UploadsToday(d, t) ==
    IF (t \div HoursPerDay) \in DOMAIN d.dailyUploads
    THEN d.dailyUploads[t \div HoursPerDay] ELSE 0

\* the first record with the given id, 0 if there is none
Target(d, id) ==
    IF \E i \in 1..Len(d.photos) : d.photos[i].id = id
    THEN CHOOSE i \in 1..Len(d.photos) :
            d.photos[i].id = id /\ \A j \in 1..(i - 1) : d.photos[j].id # id
    ELSE 0

\* the subsequence of ps at the indices I
RECURSIVE Keep(_, _, _)
Keep(ps, I, i) ==
    IF i > Len(ps) THEN <<>>
    ELSE (IF i \in I THEN <<ps[i]>> ELSE <<>>) \o Keep(ps, I, i + 1)

\* C1: in every reachable state totalBytes is the sum of size over all the
\* records in photos, soft-deleted or not.
C1_TotalBytesIsSum ==
    /\ Aggregate.totalBytes = SizeOf(Aggregate.photos, 1..Len(Aggregate.photos))
    /\ durable # NoData =>
          durable.totalBytes = SizeOf(durable.photos, 1..Len(durable.photos))

C1_Witness ==
    /\ resp.op = "delete" /\ resp.ok
    /\ Aggregate.photos # <<>>
    /\ IsSet(Aggregate.photos[1].deletedAt)
    /\ Aggregate.photos[1].favoritedBy # <<>>
    /\ Aggregate.totalBytes = 2

\* C2: totalBytes <= maxTotalBytes holds immediately after every
\* successful commit.
C2_CapAfterCommit ==
    (resp.op = "commit" /\ resp.ok) => Aggregate.totalBytes <= MaxTotalBytes

\* C3: when the durable write of a commit fails, none of its photo records
\* remain, totalBytes is unchanged and the reservation is still uncommitted.
C3_CommitAllOrNothing ==
    [][(IsRequest("commit") /\ resp'.error = "internal") =>
            /\ Aggregate'.photos = Aggregate.photos
            /\ Aggregate'.totalBytes = Aggregate.totalBytes
            /\ ~Aggregate'.reservations[resp'.rid].committed]_vars

\* C4: a record is removed from photos only while its deletedAt is set.
C4_PurgeOnlyDeleted ==
    \A i \in 1..Len(hist.removed) : IsSet(hist.removed[i].deletedAt)

\* C5: for any reservation id at most one commit succeeds; a commit of an
\* already committed reservation is answered with the already-committed
\* error, appends no record and leaves totalBytes unchanged.
C5_NoDoubleCommit ==
    [][/\ \A r \in DOMAIN hist'.commits : hist'.commits[r] <= 1
       /\ (/\ IsRequest("commit")
           /\ resp'.rid \in DOMAIN Aggregate.reservations
           /\ Aggregate.reservations[resp'.rid].committed)
          => /\ ~resp'.ok
             /\ resp'.error = "already"
             /\ Aggregate'.photos = Aggregate.photos
             /\ Aggregate'.totalBytes = Aggregate.totalBytes]_vars

C5_Witness ==
    /\ resp.op = "commit" /\ resp.error = "already"
    /\ resp.rid \in DOMAIN hist.commits
    /\ hist.commits[resp.rid] = 1

\* C6: reserve is rejected if today's upload count has reached
\* maxUploadsPerDay; otherwise it is rejected iff totalBytes + pending
\* bytes + the requested bytes exceed maxTotalBytes; otherwise it succeeds.
C6_AdmissionRule ==
    [][IsRequest("reserve") =>
        IF UploadsToday(Aggregate, now) >= MaxUploadsPerDay
        THEN ~resp'.ok /\ resp'.error = "daily"
        ELSE IF Aggregate.totalBytes + PendingBytes(Aggregate, now, {})
                    + resp'.size > MaxTotalBytes
        THEN ~resp'.ok /\ resp'.error = "storage"
        ELSE resp'.ok]_vars

C6_Witness ==
    /\ resp.op = "reserve" /\ resp.error = "storage"
    /\ PendingBytes(Aggregate, now, {}) > 0
    /\ Aggregate.totalBytes + PendingBytes(Aggregate, now, {}) <= MaxTotalBytes

\* C7: a successful commit of reservation R takes R's bytes out of the
\* pending bytes and adds the committed bytes to totalBytes, so a later
\* reserve is admitted whenever totalBytes + the pending bytes of the
\* other reservations + the requested bytes fit the cap.
C7_CommittedCountedOnce ==
    [][/\ (IsRequest("commit") /\ resp'.ok) =>
            /\ PendingBytes(Aggregate', now, {})
                  = PendingBytes(Aggregate, now, {resp'.rid})
            /\ Aggregate'.totalBytes = Aggregate.totalBytes + resp'.size
       /\ (/\ IsRequest("reserve")
           /\ UploadsToday(Aggregate, now) < MaxUploadsPerDay)
          => \A R \in DOMAIN Aggregate.reservations :
                (/\ Aggregate.reservations[R].committed
                 /\ Aggregate.totalBytes + PendingBytes(Aggregate, now, {R})
                        + resp'.size <= MaxTotalBytes)
                => resp'.ok]_vars

\* a reserve admitted although the bytes reserved by a committed, still
\* young reservation would not have left room for it
C7_Witness ==
    /\ resp.op = "reserve" /\ resp.ok
    /\ \E R \in DOMAIN Aggregate.reservations :
          /\ Aggregate.reservations[R].committed
          /\ now - Aggregate.reservations[R].createdAt < LiveWindow
          /\ Aggregate.totalBytes + Aggregate.reservations[R].totalSize
                + PendingBytes(Aggregate, now, {}) > MaxTotalBytes

\* the effect of sweep(now) with the photos soft-deleted at least `age`
\* before now taken as due
SweepRemoves(due) ==
    /\ Aggregate'.photos
          = Keep(Aggregate.photos, (1..Len(Aggregate.photos)) \ due, 1)
    /\ Aggregate'.totalBytes
          = Aggregate.totalBytes - SizeOf(Aggregate.photos, due)
    /\ \A i \in due : \A j \in 1..Len(DeletedSorted(Aggregate'.photos)) :
          DeletedSorted(Aggregate'.photos)[j] # Aggregate.photos[i]

\* C8 (as stated): sweep(now) removes every photo whose deletedAt is set
\* and for which now - deletedAt >= 30 days, subtracts the removed sizes
\* from totalBytes, and listDeleted contains none of them afterwards.
C8_SweepAtThirtyDays ==
    [][IsRequest("gallery") =>
        SweepRemoves({i \in 1..Len(Aggregate.photos) :
            /\ IsSet(Aggregate.photos[i].deletedAt)
            /\ now - getTime(Aggregate.photos[i].deletedAt)
                    >= RetentionPeriod})]_vars

\* C8 (amended): sweep(now) removes every photo whose deletedAt is set and
\* for which now - deletedAt > 30 days (a photo deleted exactly 30 days ago
\* stays), subtracts the removed sizes from totalBytes, and listDeleted
\* contains none of them afterwards.
C8_SweepAfterThirtyDays ==
    [][IsRequest("gallery") =>
        SweepRemoves({i \in 1..Len(Aggregate.photos) :
            /\ IsSet(Aggregate.photos[i].deletedAt)
            /\ now - getTime(Aggregate.photos[i].deletedAt)
                    > RetentionPeriod})]_vars

C8_Witness ==
    /\ resp.op = "gallery"
    /\ hist.removed # <<>>
    /\ Aggregate.photos # <<>>

\* C9: restore of an existing photo that is not soft-deleted returns an
\* error and changes no field of the aggregate.
C9_RestoreActiveIsError ==
    [][(/\ IsRequest("restore")
        /\ Target(Aggregate, resp'.photoId) # 0
        /\ ~IsSet(Aggregate.photos[Target(Aggregate, resp'.photoId)].deletedAt))
       => ~resp'.ok /\ Aggregate' = Aggregate]_vars

\* C10: for an Active photo, softDelete followed by restore gives back the
\* record it was, field by field, with the order of photos and totalBytes
\* unchanged.
C10_DeleteRestoreRoundTrip ==
    [][(/\ IsRequest("restore") /\ resp'.ok
        /\ hist.undo # NoUndo
        /\ hist.undo.photoId = resp'.photoId
        /\ ~IsSet(hist.undo.data.photos[
                Target(hist.undo.data, resp'.photoId)].deletedAt))
       => /\ Aggregate'.photos = hist.undo.data.photos
          /\ Aggregate'.totalBytes = hist.undo.data.totalBytes]_vars

C10_Witness ==
    /\ hist.undone
    /\ Len(Aggregate.photos) = 2
    /\ \A i \in 1..2 : ~IsSet(Aggregate.photos[i].deletedAt)

\* number of occurrences of u in the sequence fav
Occurrences(fav, u) == Cardinality({k \in 1..Len(fav) : fav[k] = u})

\* C11: toggleFavorite(photoId, userId) flips the membership of userId in
\* favoritedBy (absent -> present exactly once, present -> absent), leaves
\* the other users' memberships as they were and returns the updated set.
C11_ToggleFlipsMembership ==
    [][(IsRequest("favorite") /\ resp'.ok) =>
        LET i == Target(Aggregate, resp'.photoId)
            before == Aggregate.photos[i].favoritedBy
            after == Aggregate'.photos[i].favoritedBy
        IN  /\ resp'.favoritedBy = after
            /\ Occurrences(after, resp'.user)
                  = (IF Occurrences(before, resp'.user) = 0 THEN 1 ELSE 0)
            /\ \A v \in RegistryRun.users \ {resp'.user} :
                  Occurrences(after, v) = Occurrences(before, v)]_vars

\* the second of two identical calls, made while the other user is a member
C11_Witness ==
    /\ resp.op = "favorite" /\ resp.ok
    /\ resp.user = "arda"
    /\ resp.favoritedBy = <<"askim">>

\* C12: in every reachable state every daily upload counter is at most
\* maxUploadsPerDay, and at most maxUploadsPerDay reserves have succeeded
\* on any calendar day.
C12_DailyCounterWithinLimit ==
    /\ \A k \in DOMAIN Aggregate.dailyUploads :
          Aggregate.dailyUploads[k] <= MaxUploadsPerDay
    /\ durable # NoData =>
          \A k \in DOMAIN durable.dailyUploads :
              durable.dailyUploads[k] <= MaxUploadsPerDay
    /\ \A k \in DOMAIN hist.admitted : hist.admitted[k] <= MaxUploadsPerDay

\* a reserve refused on a later day than the first, after that day's
\* reserves used up the limit
C12_Witness ==
    /\ resp.op = "reserve" /\ resp.error = "daily"
    /\ getTodayKey(now) > 0
    /\ getTodayKey(now) \in DOMAIN hist.admitted
    /\ hist.admitted[getTodayKey(now)] = MaxUploadsPerDay

\* C13: a commit of a reservation older than the 2-hour hard expiry is
\* answered with the invalid-or-expired error and changes neither photos
\* nor totalBytes.
C13_ExpiredCommitRejected ==
    [][(/\ IsRequest("commit")
        /\ resp'.rid \in DOMAIN hist.created
        /\ now - hist.created[resp'.rid] > HardExpiry)
       => /\ ~resp'.ok
          /\ resp'.error = "invalid"
          /\ Aggregate'.photos = Aggregate.photos
          /\ Aggregate'.totalBytes = Aggregate.totalBytes]_vars

\* C14: when the durable write of a mutating request fails, the caller
\* gets the generic internal error and the in-memory aggregate and the
\* stored document are as they were before the request.
C14_FailedWriteChangesNothing ==
    [][(resp'.error = "internal" /\ now' = now /\ data' # NoData
            /\ steps' = steps + 1) =>
            /\ Aggregate' = Aggregate
            /\ durable' = durable]_vars

PhotoRequests ==
    {"favorite", "edit-note", "edit-date", "delete", "restore", "purge"}

\* C15: toggleFavorite, editNote, editAlbumDay, softDelete, restore and
\* purge of a photo id that is not in photos are answered with the
\* not-found failure and leave photos, totalBytes, reservations and
\* dailyUploads (and the stored document) unchanged.
C15_UnknownPhotoIsNotFound ==
    [][\A op \in PhotoRequests :
        (IsRequest(op) /\ steps' = steps + 1
            /\ Target(Aggregate, resp'.photoId) = 0)
        => /\ ~resp'.ok
           /\ resp'.error = "notfound"
           /\ Aggregate'.photos = Aggregate.photos
           /\ Aggregate'.totalBytes = Aggregate.totalBytes
           /\ Aggregate'.reservations = Aggregate.reservations
           /\ Aggregate'.dailyUploads = Aggregate.dailyUploads
           /\ durable' = durable]_vars

\* a request for a photo id that is not in a gallery that holds photos
C15_Witness ==
    /\ resp.op \in PhotoRequests
    /\ resp.error = "notfound"
    /\ Aggregate.photos # <<>>
    /\ Target(Aggregate, resp.photoId) = 0

\* C16: in every reachable state the ids of the records in photos are
\* pairwise distinct.
C16_IdsPairwiseDistinct ==
    \A i, j \in 1..Len(Aggregate.photos) :
        i # j => Aggregate.photos[i].id # Aggregate.photos[j].id

\* C17: a reserve with a negative totalSize is refused with a validation
\* failure and changes no field of the aggregate, and no commit stores a
\* record with a negative size.
C17_MalformedRejected ==
    [][/\ (IsRequest("reserve") /\ steps' = steps + 1 /\ resp'.size < 0)
          => /\ ~resp'.ok
             /\ resp'.error = "validation"
             /\ Aggregate' = Aggregate
       /\ (IsRequest("commit") /\ steps' = steps + 1)
          => \A i \in 1..Len(Aggregate'.photos) :
                Aggregate'.photos[i].size >= 0]_vars

\* the bytes stored in the bucket
BucketBytes == SetSum(bucket, DOMAIN bucket)

\* C18: the bytes stored in the bucket never exceed MAX_TOTAL_BYTES.
C18_BucketWithinCap == BucketBytes <= MaxTotalBytes

\* the handlers whose reserve has been admitted
Admitted ==
    {h \in Handlers :
        inflight[h].pc \in {"save", "done"} /\ inflight[h].out.resp.ok}

\* C19: reserve handlers that interleave at their awaits are never admitted
\* together beyond the headroom (here the whole cap: the store starts
\* empty and no time passes), and the reservation of every admitted handler
\* is in the aggregate the next check reads.
C19_NoRacePastCap ==
    /\ SetSum([h \in Handlers |-> inflight[h].size], Admitted) <= MaxTotalBytes
    /\ \A h \in Admitted :
          inflight[h].out.resp.rid \in DOMAIN Aggregate.reservations

\* a handler refused for storage although the aggregate held no
\* reservation when its request arrived: another handler's reservation
\* came in while it was suspended
C19_Witness ==
    \E h \in Handlers :
        /\ inflight[h].pc \in {"save", "done"}
        /\ inflight[h].out.resp.error = "storage"
        /\ inflight[h].seen.reservations = <<>>

\* the reservations that were never committed and have reached the age of
\* one hour, but whose records still exist
Abandoned(d, t) ==
    {r \in DOMAIN d.reservations :
        ~d.reservations[r].committed
        /\ t - d.reservations[r].createdAt >= LiveWindow}

\* C20: the pending bytes the admission check uses are exactly the sum of
\* totalSize over the reservations with committed = false and
\* now - createdAt < 1 hour, so an abandoned reservation of age >= 1 hour
\* adds nothing to them although its record still exists.
C20_PendingIsLiveUncommitted ==
    /\ pendingReserved(Aggregate, now) = PendingBytes(Aggregate, now, {})
    /\ pendingReserved(Aggregate, now)
          = SetSum([r \in DOMAIN Aggregate.reservations |->
                        Aggregate.reservations[r].totalSize],
                   {r \in DOMAIN Aggregate.reservations :
                        ~Aggregate.reservations[r].committed}
                     \ Abandoned(Aggregate, now))

\* a live reservation next to an abandoned one of age exactly one hour
C20_Witness ==
    /\ pendingReserved(Aggregate, now) > 0
    /\ \E r \in Abandoned(Aggregate, now) :
          now - Aggregate.reservations[r].createdAt = LiveWindow

\* C21: a successful reserve creates exactly one reservation, with
\* committed = false, and adds exactly 1 to today's counter whatever the
\* file count; a rejected reserve leaves the whole aggregate unchanged; and
\* no other request changes a daily counter, so the slot stays consumed.
C21_ReserveEffect ==
    [][/\ (IsRequest("reserve") /\ steps' = steps + 1) =>
            IF resp'.ok
            THEN /\ resp'.rid \notin DOMAIN Aggregate.reservations
                 /\ DOMAIN Aggregate'.reservations
                        \ DOMAIN Aggregate.reservations = {resp'.rid}
                 /\ ~Aggregate'.reservations[resp'.rid].committed
                 /\ UploadsToday(Aggregate', now)
                        = UploadsToday(Aggregate, now) + 1
            ELSE Aggregate' = Aggregate /\ durable' = durable
       /\ (steps' = steps + 1 /\ ~IsRequest("reserve"))
            => Aggregate'.dailyUploads = Aggregate.dailyUploads]_vars

\* the day's second reserve, of three files, admitted next to a
\* reservation that was not committed
C21_Witness ==
    /\ resp.op = "reserve" /\ resp.ok
    /\ Aggregate.reservations[resp.rid].fileCount = 3
    /\ UploadsToday(Aggregate, now) = 2
    /\ \E r \in DOMAIN Aggregate.reservations :
          r # resp.rid /\ ~Aggregate.reservations[r].committed

\* C22: right after a successful reserve, reservations holds no entry older
\* than 2 hours, committed or not, and dailyUploads no date key more than 7
\* days before today, while the new reservation and today's counter are
\* there.
C22_ReserveCollectsGarbage ==
    [][(IsRequest("reserve") /\ steps' = steps + 1 /\ resp'.ok) =>
        /\ \A r \in DOMAIN Aggregate'.reservations :
              now - Aggregate'.reservations[r].createdAt <= HardExpiry
        /\ \A k \in DOMAIN Aggregate'.dailyUploads :
              (now \div HoursPerDay) - k <= CounterRetentionDays
        /\ resp'.rid \in DOMAIN Aggregate'.reservations
        /\ (now \div HoursPerDay) \in DOMAIN Aggregate'.dailyUploads]_vars

\* a reserve that dropped an older reservation and kept one that is
\* exactly two hours old
C22_Witness ==
    /\ resp.op = "reserve" /\ resp.ok
    /\ resp.rid \in DOMAIN hist.created /\ hist.created[resp.rid] = now
    /\ \E r \in DOMAIN Aggregate.reservations :
          now - Aggregate.reservations[r].createdAt = HardExpiry
    /\ \E r \in DOMAIN hist.created : r \notin DOMAIN Aggregate.reservations

\* the record at position i has the fields of the draft, no favourites
\* and no deletedAt
IsRecordOf(p, draft) ==
    /\ p.id = draft.id /\ p.size = draft.size
    /\ p.key = draft.key /\ p.thumbnailKey = draft.thumbnailKey
    /\ p.note = draft.note /\ p.day = draft.day
    /\ p.uploadedAt = draft.uploadedAt
    /\ p.favoritedBy = <<>>
    /\ ~IsSet(p.deletedAt)

\* C23: a successful commit appends one record per draft, in the drafts'
\* order, at the end of photos, each without favourites and deletedAt,
\* adds the sum of the drafts' sizes to totalBytes, sets the reservation's
\* committed flag, and changes no existing record, no other reservation
\* and no daily counter.
C23_CommitEffect ==
    [][(IsRequest("commit") /\ steps' = steps + 1 /\ resp'.ok) =>
        LET n == Len(Aggregate.photos)
            ds == resp'.drafts
            rid == resp'.rid
        IN  /\ Len(Aggregate'.photos) = n + Len(ds)
            /\ \A i \in 1..n : Aggregate'.photos[i] = Aggregate.photos[i]
            /\ \A j \in 1..Len(ds) : IsRecordOf(Aggregate'.photos[n + j], ds[j])
            /\ Aggregate'.totalBytes
                  = Aggregate.totalBytes
                    + SetSum([j \in 1..Len(ds) |-> ds[j].size], 1..Len(ds))
            /\ Aggregate'.reservations
                  = [Aggregate.reservations EXCEPT ![rid].committed = TRUE]
            /\ ~Aggregate.reservations[rid].committed
            /\ Aggregate'.dailyUploads = Aggregate.dailyUploads]_vars

\* a commit of two drafts onto a gallery that holds a photo already
C23_Witness ==
    /\ resp.op = "commit" /\ resp.ok
    /\ Len(resp.drafts) = 2
    /\ Len(Aggregate.photos) = 3
    /\ resp.drafts[1].size # resp.drafts[2].size \/ resp.drafts[1].id # resp.drafts[2].id

\* the ids of the stored records, in stored order
RecordIds(d) == [i \in 1..Len(d.photos) |-> d.photos[i].id]

\* C24: across one request, totalBytes grows only in a successful commit
\* and shrinks only in a purge or a sweep that removes a record; reserve,
\* favourite, note and date edits, soft delete, restore and the reads that
\* do not sweep leave totalBytes and the stored records' identity alone.
C24_TotalBytesFrame ==
    [][(steps' = steps + 1 /\ now' = now /\ data' # NoData) =>
        LET a == Aggregate
            z == Aggregate'
        IN  /\ z.totalBytes > a.totalBytes
                  => resp'.op = "commit" /\ resp'.ok
            /\ z.totalBytes < a.totalBytes
                  => /\ resp'.op \in {"purge", "gallery"}
                     /\ Len(z.photos) < Len(a.photos)
            /\ resp'.op \in {"reserve", "favorite", "edit-note", "edit-date",
                              "delete", "restore", "usage", "recycle"}
                  => /\ z.totalBytes = a.totalBytes
                     /\ RecordIds(z) = RecordIds(a)]_vars

\* C25: a reservation's committed flag starts false, turns true only in a
\* successful commit of that id and never turns false again; a reservation
\* appears only in a successful reserve and disappears only in the
\* collection a successful reserve runs.
C25_ReservationLifecycle ==
    [][LET a == Aggregate.reservations
           z == Aggregate'.reservations
           request(op) == /\ steps' = steps + 1 /\ now' = now
                          /\ resp'.op = op /\ resp'.ok
       IN  /\ \A rid \in DOMAIN a \cap DOMAIN z :
                 /\ a[rid].committed => z[rid].committed
                 /\ (~a[rid].committed /\ z[rid].committed)
                       => request("commit") /\ resp'.rid = rid
           /\ \A rid \in DOMAIN z \ DOMAIN a :
                 /\ ~z[rid].committed
                 /\ request("reserve") /\ resp'.rid = rid
           /\ \A rid \in DOMAIN a \ DOMAIN z : request("reserve")]_vars

\* C26: a soft delete of an existing photo stamps that one record's
\* deletedAt with the current time; the record keeps its position and its
\* other fields, totalBytes keeps counting its size, and every other
\* record and field of the aggregate is unchanged.
C26_SoftDeleteFrame ==
    [][(IsRequest("delete") /\ steps' = steps + 1 /\ resp'.ok) =>
        LET a == Aggregate
            z == Aggregate'
        IN  /\ Len(z.photos) = Len(a.photos)
            /\ \E i \in 1..Len(a.photos) :
                  /\ a.photos[i].id = resp'.photoId
                  /\ IsSet(z.photos[i].deletedAt)
                  /\ getTime(z.photos[i].deletedAt) = now
                  /\ [z.photos[i] EXCEPT !.deletedAt = a.photos[i].deletedAt]
                        = a.photos[i]
                  /\ \A j \in 1..Len(a.photos) \ {i} :
                        z.photos[j] = a.photos[j]
            /\ z.totalBytes = a.totalBytes
            /\ z.totalBytes = SumSizes(z.photos)
            /\ z.reservations = a.reservations
            /\ z.dailyUploads = a.dailyUploads]_vars

\* a soft delete in a gallery of several photos, at least one still active
C26_Witness ==
    /\ resp.op = "delete" /\ resp.ok
    /\ Len(Aggregate.photos) >= 2
    /\ \E i, j \in 1..Len(Aggregate.photos) :
          /\ i # j
          /\ Aggregate.photos[i].id = resp.photoId
          /\ IsSet(Aggregate.photos[i].deletedAt)
          /\ getTime(Aggregate.photos[i].deletedAt) = now
          /\ ~IsSet(Aggregate.photos[j].deletedAt)

\* C27: a successful purge removes exactly one record, one with the given
\* id, keeps the others in their order, subtracts that record's size from
\* totalBytes and returns that record's key and thumbnailKey.
C27_PurgeEffect ==
    [][(IsRequest("purge") /\ steps' = steps + 1 /\ resp'.ok) =>
        LET a == Aggregate
            z == Aggregate'
        IN  \E i \in 1..Len(a.photos) :
              /\ a.photos[i].id = resp'.photoId
              /\ Len(z.photos) = Len(a.photos) - 1
              /\ \A j \in 1..(i - 1) : z.photos[j] = a.photos[j]
              /\ \A j \in i..Len(z.photos) : z.photos[j] = a.photos[j + 1]
              /\ z.totalBytes = a.totalBytes - a.photos[i].size
              /\ resp'.keys = <<a.photos[i].key, a.photos[i].thumbnailKey>>]_vars

\* a purge that left other photos behind and did subtract bytes
C27_Witness ==
    /\ resp.op = "purge" /\ resp.ok
    /\ Len(resp.keys) = 2
    /\ resp.size > 0
    /\ Len(Aggregate.photos) >= 2
    /\ \A i \in 1..Len(Aggregate.photos) : Aggregate.photos[i].id # resp.photoId

\* the sequences r and q hold the same records, each as many times
SameRecords(r, q) ==
    /\ Len(r) = Len(q)
    /\ \A k \in 1..Len(r) : Occurrences(r, r[k]) = Occurrences(q, r[k])

\* the sequence r is in descending order of the time in `field`
Descending(r, field) ==
    \A i, j \in 1..Len(r) :
        i < j => getTime(r[i][field]) >= getTime(r[j][field])

\* C28: listActive returns exactly the records of photos whose deletedAt is
\* unset once its sweep has run, in descending order of uploadedAt, and
\* the stored sequence keeps its order (it only loses what was swept).
C28_ListActive ==
    [][(IsRequest("gallery") /\ steps' = steps + 1 /\ resp'.ok) =>
        LET a == Aggregate.photos
            z == Aggregate'.photos
            active == {i \in 1..Len(z) : ~IsSet(z[i].deletedAt)}
        IN  /\ SameRecords(resp'.photos, Keep(z, active, 1))
            /\ Descending(resp'.photos, "uploadedAt")
            /\ \E I \in SUBSET (1..Len(a)) : z = Keep(a, I, 1)]_vars

\* a listing of active photos whose stored order is not the listed order
C28_Witness ==
    /\ resp.op = "gallery" /\ resp.ok
    /\ Len(resp.photos) >= 2
    /\ \E i, j \in 1..Len(Aggregate.photos) :
          /\ i < j
          /\ ~IsSet(Aggregate.photos[i].deletedAt)
          /\ ~IsSet(Aggregate.photos[j].deletedAt)
          /\ getTime(Aggregate.photos[i].uploadedAt)
                < getTime(Aggregate.photos[j].uploadedAt)

\* C29: listDeleted returns exactly the records of photos whose deletedAt
\* is set, in descending order of deletedAt, and changes nothing in the
\* aggregate; every record of photos is in exactly one of the two
\* listings, listActive and listDeleted.
C29_ListDeleted ==
    [][(IsRequest("recycle") /\ steps' = steps + 1 /\ resp'.ok) =>
        LET a == Aggregate.photos
            deleted == {i \in 1..Len(a) : IsSet(a[i].deletedAt)}
            listActive == handleGetGallery(Aggregate, now).resp.photos
        IN  /\ SameRecords(resp'.photos, Keep(a, deleted, 1))
            /\ Descending(resp'.photos, "deletedAt")
            /\ Aggregate' = Aggregate
            /\ durable' = durable
            /\ \A i \in 1..Len(a) :
                  (Occurrences(resp'.photos, a[i]) > 0)
                    # (Occurrences(listActive, a[i]) > 0)]_vars

\* a bin listing of two photos deleted at different times
C29_Witness ==
    /\ resp.op = "recycle" /\ resp.ok
    /\ Len(resp.photos) >= 2
    /\ getTime(resp.photos[1].deletedAt) > getTime(resp.photos[2].deletedAt)
    /\ Len(Aggregate.photos) >= 2

\* C30: editAlbumDay(photoId, newDay) on an existing photo overwrites day
\* with newDay and sets uploadedAt to the timestamp of newDay, so that
\* listActive places the photo by newDay; size, keys, note, favoritedBy and
\* deletedAt of the photo, and the other records, are unchanged.
C30_EditDateEffect ==
    [][(IsRequest("edit-date") /\ steps' = steps + 1
            /\ Target(Aggregate, resp'.photoId) # 0) =>
        LET i == Target(Aggregate, resp'.photoId)
            p == Aggregate.photos[i]
            q == Aggregate'.photos[i]
        IN  /\ Len(Aggregate'.photos) = Len(Aggregate.photos)
            /\ resp'.ok => q.day = resp'.day
            /\ (resp'.ok \/ q.day # p.day)
                  => q.uploadedAt = DayToISOString(q.day)
            /\ [q EXCEPT !.day = p.day, !.uploadedAt = p.uploadedAt] = p
            /\ \A j \in 1..Len(Aggregate.photos) \ {i} :
                  Aggregate'.photos[j] = Aggregate.photos[j]
            /\ Descending(handleGetGallery(Aggregate', now).resp.photos,
                          "uploadedAt")]_vars

\* C31: the sweep is idempotent (a second sweep at the same time changes
\* nothing); when no photo is due it changes no field of the aggregate and
\* writes nothing; and it always leaves the active photos and the photos
\* deleted less than the retention period ago untouched, in their order.
C31_SweepIdempotent ==
    [][(IsRequest("gallery") /\ steps' = steps + 1) =>
        LET a == Aggregate
            first == autoPurgeOldDeleted(a, now)
            second == autoPurgeOldDeleted(first.data, now)
            young == {i \in 1..Len(a.photos) :
                        \/ ~IsSet(a.photos[i].deletedAt)
                        \/ now - getTime(a.photos[i].deletedAt) < RetentionPeriod}
        IN  /\ Aggregate' = first.data
            /\ second.data = first.data /\ ~second.changed
            /\ Expired(a.photos, now) = {}
                  => /\ Aggregate' = a
                     /\ ~handleGetGallery(a, now).save
                     /\ durable' = durable
            /\ \E I \in SUBSET (1..Len(a.photos)) :
                  /\ young \subseteq I
                  /\ Aggregate'.photos = Keep(a.photos, I, 1)]_vars

\* a gallery read whose sweep dropped a photo and kept one that is in the bin
C31_Witness ==
    /\ resp.op = "gallery" /\ resp.ok
    /\ hist.removed # <<>>
    /\ \E i \in 1..Len(Aggregate.photos) : IsSet(Aggregate.photos[i].deletedAt)

\* the requests that assign to the aggregate when they succeed
MutatingRequests == PhotoRequests \cup {"reserve", "commit"}

\* C32: with requests served one at a time and every storage write
\* succeeding, a mutating request (or a read whose sweep dropped a photo)
\* that is answered ok leaves the stored document equal to the aggregate
\* in memory: ok is never answered before the write.
C32_SavedBeforeOk ==
    [][(/\ steps' = steps + 1 /\ now' = now /\ data' # NoData
        /\ resp'.ok
        /\ resp'.op \in MutatingRequests \/ Aggregate' # Aggregate)
       => durable' = data']_vars

\* a note edit answered ok, with the note in the stored document
C32_Witness ==
    /\ resp.op = "edit-note" /\ resp.ok
    /\ durable = data
    /\ \E i \in 1..Len(durable.photos) : durable.photos[i].note # ""

\* C33: totalBytes is never negative, whatever integer sizes the reserve
\* and commit requests carry.
C33_TotalBytesNonNegative ==
    /\ Aggregate.totalBytes >= 0
    /\ durable # NoData => durable.totalBytes >= 0

\* C34: a reserve refused for storage reports
\* max(0, floor((maxTotalBytes - totalBytes - pendingReservedBytes) / 2^20))
\* megabytes: never a negative figure and never more than the headroom
\* there is.
C34_RemainingReported ==
    [][(IsRequest("reserve") /\ steps' = steps + 1
            /\ resp'.error = "storage") =>
        LET headroom == HeadroomRun.maxTotalBytes - Aggregate.totalBytes
                          - PendingBytes(Aggregate, now, {})
            floor == headroom \div BytesPerMB
        IN  /\ resp'.remaining = (IF floor > 0 THEN floor ELSE 0)
            /\ resp'.remaining >= 0
            /\ resp'.remaining * BytesPerMB
                  <= (IF headroom > 0 THEN headroom ELSE 0)]_vars

\* a refusal that reports one megabyte while a little more than one is left
C34_Witness ==
    /\ resp.op = "reserve" /\ resp.error = "storage"
    /\ resp.remaining = 1
    /\ HeadroomRun.maxTotalBytes - Aggregate.totalBytes
          - PendingBytes(Aggregate, now, {}) > BytesPerMB

\* C35: a successful commit adds no more bytes to totalBytes than the
\* committed reservation's totalSize and appends no more records than its
\* fileCount.
C35_CommitWithinReservation ==
    [][(IsRequest("commit") /\ steps' = steps + 1 /\ resp'.ok) =>
        LET reservation == Aggregate.reservations[resp'.rid] IN
        /\ Aggregate'.totalBytes - Aggregate.totalBytes <= reservation.totalSize
        /\ Len(Aggregate'.photos) - Len(Aggregate.photos)
              <= reservation.fileCount]_vars

Overdue(d, t) ==
    {i \in 1..Len(d.photos) :
        /\ IsSet(d.photos[i].deletedAt)
        /\ t - getTime(d.photos[i].deletedAt) >= RetentionPeriod}

\* C38: the sweep runs only in the gallery read.  In any other request
\* but a purge no record leaves photos, so a photo soft-deleted thirty
\* days ago or longer stays there: listDeleted returns it, a restore of it
\* succeeds, and reserve's admission check counts its size in totalBytes.
C38_SweepOnlyInGallery ==
    [][(steps' = steps + 1 /\ now' = now /\ data' # NoData
            /\ resp'.op \notin {"gallery", "purge"}) =>
        LET a == Aggregate
            z == Aggregate'
            due == Overdue(a, now)
        IN  /\ Len(z.photos) >= Len(a.photos)
            /\ \A i \in 1..Len(a.photos) : z.photos[i].id = a.photos[i].id
            /\ z.totalBytes >= a.totalBytes
            /\ resp'.op = "recycle"
                  => \A i \in due : Occurrences(resp'.photos, a.photos[i]) > 0
            /\ (resp'.op = "restore" /\ Target(a, resp'.photoId) \in due)
                  => /\ resp'.ok
                     /\ ~IsSet(z.photos[Target(a, resp'.photoId)].deletedAt)
            /\ (resp'.op = "reserve"
                    /\ UploadsToday(a, now) < MaxUploadsPerDay)
                  => (resp'.ok <=>
                        SumSizes(a.photos) + PendingBytes(a, now, {})
                            + resp'.size <= MaxTotalBytes)]_vars

\* a reserve refused for storage that would have fitted had the photo in
\* the bin for thirty days or longer been swept
C38_Witness ==
    /\ resp.op = "reserve" /\ resp.error = "storage"
    /\ Overdue(Aggregate, now) # {}
    /\ Aggregate.totalBytes - SizeOf(Aggregate.photos, Overdue(Aggregate, now))
          + PendingBytes(Aggregate, now, {}) + resp.size <= MaxTotalBytes

\* C39: a restored photo is removed by no later sweep, however long ago
\* it was first deleted, unless it is soft-deleted again; and a soft delete
\* of a photo already in the bin overwrites deletedAt with the current
\* time, so that the thirty days run from the latest soft delete.
C39_RetentionFromLastDelete ==
    [][(steps' = steps + 1 /\ now' = now /\ data' # NoData) =>
        LET a == Aggregate
            z == Aggregate'
            i == Target(a, resp'.photoId)
        IN  /\ (resp'.op = "restore" /\ resp'.ok)
                  => ~IsSet(z.photos[i].deletedAt)
            /\ resp'.op = "gallery"
                  => \A id \in DOMAIN hist.restored :
                        /\ Target(a, id) # 0
                        /\ Target(z, id) # 0
                        /\ z.photos[Target(z, id)] = a.photos[Target(a, id)]
            /\ (resp'.op = "delete" /\ resp'.ok /\ IsSet(a.photos[i].deletedAt))
                  => /\ getTime(z.photos[i].deletedAt) = now
                     /\ i \notin Expired(z.photos, now + RetentionPeriod)
                     /\ i \in Expired(z.photos, now + RetentionPeriod + 1)]_vars

\* a gallery read that kept a photo restored from a bin it had entered
\* more than thirty days before
C39_Witness ==
    /\ resp.op = "gallery" /\ resp.ok
    /\ \E id \in DOMAIN hist.restored :
          /\ now - hist.restored[id] > RetentionPeriod
          /\ Target(Aggregate, id) # 0
          /\ Occurrences(resp.photos, Aggregate.photos[Target(Aggregate, id)]) > 0

====
